---- MODULE Spec2Model ----
(***************************************************************************)
(* A model of gameOfLife.c: the Grid (a 2-dimensional char array reached   *)
(* through selsectCell / getCell / setCell), the Game (two Grids and a     *)
(* currentGridPtr), createGrid / createGame / destroyGrid / destroyGame    *)
(* over an explicit heap, randomizeGrid and iterateGame.                   *)
(***************************************************************************)
EXTENDS Integers, Sequences, FiniteSets, TLC

VARIABLES
    heap,     \* the allocated blocks, in allocation order: status and contents
    game,     \* the contents of the Game struct *gamePtr
    gamePtr,  \* the pointer createGame returned
    pc,       \* "start", "running", "failed", "destroyed" or "crashed"
    last,     \* the last call made and what it returned
    faults,   \* the undefined heap operations performed so far
    seed,     \* the cells of the current grid as last written from outside
    gen,      \* iterateGame calls since the seed was written
    nIter,    \* iterateGame calls since createGame
    nWrites,  \* setCell calls made by the session's caller
    randomized \* whether the caller has called randomizeGame

vars == <<heap, game, gamePtr, pc, last, faults, seed, gen, nIter, nWrites,
          randomized>>

(* ---------------------------- bounds ----------------------------------- *)
MaxX == 3
MaxY == 3
MaxCells == 9
MaxCoord == 4
MaxSteps == 2
MaxWrites == 2
MaxSeeds == 1

(* ------------------------- program constants --------------------------- *)
GOL__CELL_STATE__OFF == 0
GOL__CELL_STATE__ON == 1
GOL__CELL_STATE__INVALID == 2

GOL__OOBR__ALL_OFF == 0
GOL__OOBR__ALL_ON == 1
GOL__OOBR__TORUS == 2

\* sizeof( char ), which the source uses as the number of cells per char
SizeofChar == 1

\* member offsets inside the Game struct (in members, not bytes)
OffGridA == 0
OffGridB == 1

\* a pointer is a block of the heap and an offset inside it
Ptr(b, o) == [blk |-> b, off |-> o]
Null == Ptr(0, 0)

NoGrid == [origin |-> Null, gridSizeX |-> 0, gridSizeY |-> 0,
           arraySizeX |-> 0, arraySizeY |-> 0, outOfBoundsRule |-> 0]
NoGame == [gridA |-> NoGrid, gridB |-> NoGrid, currentGridPtr |-> Null]

Rules == {GOL__OOBR__ALL_OFF, GOL__OOBR__ALL_ON, GOL__OOBR__TORUS}

(* --------------------------- arithmetic -------------------------------- *)
Abs(a) == IF a < 0 THEN -a ELSE a

\* lldiv of <stdlib.h>: the quotient truncates toward zero (divisor # 0)
lldiv(dividend, divisor) ==
    LET q == IF (dividend < 0) = (divisor < 0)
             THEN Abs(dividend) \div Abs(divisor)
             ELSE -(Abs(dividend) \div Abs(divisor))
    IN [quot |-> q, rem |-> dividend - q * divisor]

lldivGreater(dividend, divisor) ==
    LET normal == lldiv(dividend, divisor) IN
    IF normal.rem = 0
    THEN [quot |-> normal.quot, rem |-> normal.rem]
    ELSE IF (dividend >= 0 /\ divisor >= 0) \/ (dividend < 0 /\ divisor < 0)
         THEN [quot |-> normal.quot + 1, rem |-> normal.rem - divisor]
         ELSE [quot |-> normal.quot - 1, rem |-> normal.rem + divisor]

\* lldivPositive, but a negative remainder is negated
lldivPositiveNegates(dividend, divisor) ==
    LET normal == lldiv(dividend, divisor) IN
    IF normal.rem >= 0
    THEN normal
    ELSE [quot |-> normal.quot - 1, rem |-> -normal.rem]

lldivPositive(dividend, divisor) ==
    LET normal == lldiv(dividend, divisor) IN
    IF normal.rem >= 0
    THEN normal
    ELSE [quot |-> normal.quot - 1, rem |-> normal.rem + divisor]

\* the bits of a char, as a number 0..255
ToByte(v) == v % 256

RECURSIVE BitAnd(_, _)
BitAnd(a, b) ==
    IF a = 0 \/ b = 0 THEN 0
    ELSE (a % 2) * (b % 2) + 2 * BitAnd(a \div 2, b \div 2)

RECURSIVE BitOr(_, _)
BitOr(a, b) ==
    IF a = 0 THEN b
    ELSE IF b = 0 THEN a
    ELSE (IF a % 2 = 1 \/ b % 2 = 1 THEN 1 ELSE 0) + 2 * BitOr(a \div 2, b \div 2)

\* C's && and ! on integers
LogicalAnd(a, b) == IF a # 0 /\ b # 0 THEN 1 ELSE 0
LogicalNot(a) == IF a = 0 THEN 1 ELSE 0

\* (char) ( 1 << bitIndex )
ShiftedOne(bitIndex) == ToByte(2 ^ bitIndex)

(* ------------------------------ heap ----------------------------------- *)
\* m is the allocator as one call sees it: the blocks, the number of
\* allocation calls made, which call fails (0: none), whether a zero-size
\* calloc returns NULL, and the undefined operations performed.
Block(kind, n) ==
    [kind |-> kind, live |-> TRUE,
     ptrs |-> IF kind = "origin" THEN [i \in 1..n |-> Null] ELSE <<>>,
     chars |-> IF kind = "row" THEN [j \in 1..n |-> 0] ELSE <<>>,
     grid |-> NoGrid]

calloc(m, kind, n) ==
    LET c == m.calls + 1 IN
    IF c = m.failAt \/ (n = 0 /\ m.zeroNull)
    THEN [m |-> [m EXCEPT !.calls = c], p |-> Null]
    ELSE [m |-> [m EXCEPT !.calls = c, !.heap = Append(@, Block(kind, n))],
          p |-> Ptr(Len(m.heap) + 1, 0)]

malloc(m, kind) == calloc(m, kind, 1)

free(m, p) ==
    IF p = Null THEN m
    ELSE IF p.off # 0 THEN [m EXCEPT !.faults = @ \cup {"invalid_free"}]
    ELSE IF ~m.heap[p.blk].live THEN [m EXCEPT !.faults = @ \cup {"double_free"}]
    ELSE [m EXCEPT !.heap[p.blk].live = FALSE]

(* ------------------------ Grid - create & destroy ---------------------- *)
RECURSIVE allocRows(_, _, _, _, _)
allocRows(m, origin, i, arraySizeX, arraySizeY) ==
    IF i < arraySizeX
    THEN LET r == calloc(m, "row", arraySizeY) IN
         IF r.p = Null
         THEN [m |-> r.m, i |-> i, error |-> TRUE]
         ELSE allocRows([r.m EXCEPT !.heap[origin.blk].ptrs[i + 1] = r.p],
                        origin, i + 1, arraySizeX, arraySizeY)
    ELSE [m |-> m, i |-> i, error |-> FALSE]

RECURSIVE freeRows(_, _, _, _)
freeRows(m, ptrs, toFreeIndex, i) ==
    IF toFreeIndex < i
    THEN freeRows(free(m, ptrs[toFreeIndex + 1]), ptrs, toFreeIndex + 1, i)
    ELSE m

createGrid(m, gridSizeX, gridSizeY, outOfBoundsRule) ==
    IF gridSizeX < 0 \/ gridSizeY < 0
    THEN [m |-> m, p |-> Null]
    ELSE
      LET s == malloc(m, "Grid") IN
      IF s.p = Null THEN [m |-> s.m, p |-> Null]
      ELSE
        LET arraySizeX == gridSizeX
            arraySizeY == lldivGreater(gridSizeY, SizeofChar).quot
            o == calloc(s.m, "origin", arraySizeX)
        IN
        IF o.p = Null THEN [m |-> free(o.m, s.p), p |-> Null]
        ELSE
          LET r == allocRows(o.m, o.p, 0, arraySizeX, arraySizeY) IN
          IF r.error
          THEN [m |-> free(free(freeRows(r.m, r.m.heap[o.p.blk].ptrs, 0, r.i),
                                o.p), s.p),
                p |-> Null]
          ELSE [m |-> [r.m EXCEPT !.heap[s.p.blk].grid =
                         [origin |-> o.p,
                          gridSizeX |-> gridSizeX, gridSizeY |-> gridSizeY,
                          arraySizeX |-> arraySizeX, arraySizeY |-> arraySizeY,
                          outOfBoundsRule |-> outOfBoundsRule]],
                p |-> s.p]

(* ------------------------ Game - create -------------------------------- *)
\* ret is the pointer returned; error is createGame's local flag.
createGame(m, gridSizeX, gridSizeY, outOfBoundsRule) ==
    LET n == malloc(m, "Game") IN
    IF n.p = Null
    THEN [m |-> n.m, ret |-> Null, error |-> TRUE, game |-> NoGame]
    ELSE
      LET a == createGrid(n.m, gridSizeX, gridSizeY, outOfBoundsRule) IN
      IF a.p = Null
      THEN [m |-> free(a.m, n.p), ret |-> n.p, error |-> TRUE, game |-> NoGame]
      ELSE
        LET b == createGrid(a.m, gridSizeX, gridSizeY, outOfBoundsRule) IN
        IF b.p = Null
        THEN [m |-> free(free(b.m, a.p), n.p), ret |-> n.p, error |-> TRUE,
              game |-> NoGame]
        ELSE [m |-> b.m, ret |-> n.p, error |-> FALSE,
              game |-> [gridA |-> b.m.heap[a.p.blk].grid,
                        gridB |-> b.m.heap[b.p.blk].grid,
                        currentGridPtr |-> Ptr(n.p.blk, OffGridA)]]

(* ------------------------ Grid - getter and setter --------------------- *)
Deref(gm, gp, p) == IF p = Ptr(gp.blk, OffGridA) THEN gm.gridA ELSE gm.gridB

InBounds(g, x, y) == x >= 0 /\ y >= 0 /\ x < g.gridSizeX /\ y < g.gridSizeY

\* selsectCell is defined unless it reaches lldiv with a zero divisor
selsectCellDefined(g, x, y) ==
    \/ InBounds(g, x, y)
    \/ g.outOfBoundsRule # GOL__OOBR__TORUS
    \/ (g.gridSizeX # 0 /\ g.gridSizeY # 0)

RECURSIVE selsectCell(_, _, _, _)
selsectCell(h, g, x, y) ==
    IF InBounds(g, x, y)
    THEN LET i == x
             division == lldiv(y, SizeofChar)
             j == division.quot
         IN [storageCharPtr |-> Ptr(h[g.origin.blk].ptrs[i + 1].blk, j),
             bitIndex |-> division.rem]
    ELSE IF g.outOfBoundsRule = GOL__OOBR__TORUS
         THEN LET newX == lldivPositive(x, g.gridSizeX).rem
                  newY == lldivPositive(y, g.gridSizeY).rem
              IN selsectCell(h, g, newX, newY)
         ELSE [storageCharPtr |-> Null, bitIndex |-> SizeofChar]

\* *storageCharPtr
CharAt(h, p) == h[p.blk].chars[p.off + 1]

getCell(h, g, x, y) ==
    LET targetIndex == selsectCell(h, g, x, y)
        storageCharPtr == targetIndex.storageCharPtr
        bitIndex == targetIndex.bitIndex
    IN
    IF storageCharPtr = Null
    THEN IF bitIndex # SizeofChar
         THEN GOL__CELL_STATE__INVALID
         ELSE IF g.outOfBoundsRule = GOL__OOBR__ALL_OFF
              THEN GOL__CELL_STATE__OFF
              ELSE IF g.outOfBoundsRule = GOL__CELL_STATE__ON
                   THEN GOL__CELL_STATE__ON
                   ELSE GOL__CELL_STATE__INVALID
    ELSE IF LogicalAnd(CharAt(h, storageCharPtr), ShiftedOne(bitIndex)) = 0
         THEN GOL__CELL_STATE__OFF
         ELSE GOL__CELL_STATE__ON

\* setCell, but the mask that clears the bit is not negated
setCellNoNegation(h, g, x, y, newState) ==
    LET targetIndex == selsectCell(h, g, x, y)
        p == targetIndex.storageCharPtr
        bitIndex == targetIndex.bitIndex
    IN
    IF bitIndex = SizeofChar
    THEN [heap |-> h, error |-> 1]
    ELSE IF newState = GOL__CELL_STATE__OFF
         THEN [heap |-> [h EXCEPT ![p.blk].chars[p.off + 1] =
                            ToByte(BitAnd(@, ShiftedOne(bitIndex)))],
               error |-> 0]
         ELSE IF newState = GOL__CELL_STATE__ON
              THEN [heap |-> [h EXCEPT ![p.blk].chars[p.off + 1] =
                                 ToByte(BitOr(@, ShiftedOne(bitIndex)))],
                    error |-> 0]
              ELSE [heap |-> h, error |-> 2]

\* setCell, but an unselectable cell is not reported
setCellNoError(h, g, x, y, newState) ==
    LET targetIndex == selsectCell(h, g, x, y)
        p == targetIndex.storageCharPtr
        bitIndex == targetIndex.bitIndex
    IN
    IF bitIndex = SizeofChar
    THEN [heap |-> h, error |-> 0]
    ELSE IF newState = GOL__CELL_STATE__OFF
         THEN [heap |-> [h EXCEPT ![p.blk].chars[p.off + 1] =
                            ToByte(BitAnd(@, LogicalNot(ShiftedOne(bitIndex))))],
               error |-> 0]
         ELSE IF newState = GOL__CELL_STATE__ON
              THEN [heap |-> [h EXCEPT ![p.blk].chars[p.off + 1] =
                                 ToByte(BitOr(@, ShiftedOne(bitIndex)))],
                    error |-> 0]
              ELSE [heap |-> h, error |-> 2]

\* setCell, but the char is taken at the start of the column, without y
setCellColumnStart(h, g, x, y, newState) ==
    LET targetIndex == selsectCell(h, g, x, y)
        p == targetIndex.storageCharPtr
        bitIndex == targetIndex.bitIndex
    IN
    IF bitIndex = SizeofChar
    THEN [heap |-> h, error |-> 1]
    ELSE IF newState = GOL__CELL_STATE__OFF
         THEN [heap |-> [h EXCEPT ![p.blk].chars[1] =
                            ToByte(BitAnd(@, LogicalNot(ShiftedOne(bitIndex))))],
               error |-> 0]
         ELSE IF newState = GOL__CELL_STATE__ON
              THEN [heap |-> [h EXCEPT ![p.blk].chars[1] =
                                 ToByte(BitOr(@, ShiftedOne(bitIndex)))],
                    error |-> 0]
              ELSE [heap |-> h, error |-> 2]

setCell(h, g, x, y, newState) ==
    LET targetIndex == selsectCell(h, g, x, y)
        p == targetIndex.storageCharPtr
        bitIndex == targetIndex.bitIndex
    IN
    IF bitIndex = SizeofChar
    THEN [heap |-> h, error |-> 1]
    ELSE IF newState = GOL__CELL_STATE__OFF
         THEN [heap |-> [h EXCEPT ![p.blk].chars[p.off + 1] =
                            ToByte(BitAnd(@, LogicalNot(ShiftedOne(bitIndex))))],
               error |-> 0]
         ELSE IF newState = GOL__CELL_STATE__ON
              THEN [heap |-> [h EXCEPT ![p.blk].chars[p.off + 1] =
                                 ToByte(BitOr(@, ShiftedOne(bitIndex)))],
                    error |-> 0]
              ELSE [heap |-> h, error |-> 2]

(* ------------------------ Grid - miscellaneous ------------------------- *)
\* r[k + 1] is rand() % 2 for the k-th cell visited, k = i * gridSizeY + j
RECURSIVE randomizeGrid(_, _, _, _)
randomizeGrid(h, g, r, k) ==
    IF k >= g.gridSizeX * g.gridSizeY THEN h
    ELSE LET i == k \div g.gridSizeY
             j == k % g.gridSizeY
         IN randomizeGrid(
              setCell(h, g, i, j, IF r[k + 1] # 0 THEN GOL__CELL_STATE__OFF
                                  ELSE GOL__CELL_STATE__ON).heap,
              g, r, k + 1)

(* ------------------------ Game - miscellaneous ------------------------- *)
\* the Rules of the Game of Life, as iterateGame writes them
\* the eight cells iterateGame adds up, in the order it reads them
NeighborOffsets ==
    << <<-1, -1>>, <<-1, 0>>, <<-1, 1>>, <<0, -1>>,
       <<0, 1>>, <<1, -1>>, <<1, 0>>, <<1, 1>> >>

\* the sum of getCell over the first n of them
RECURSIVE sumCells(_, _, _, _, _)
sumCells(h, src, i, j, n) ==
    IF n = 0 THEN 0
    ELSE sumCells(h, src, i, j, n - 1)
         + getCell(h, src, i + NeighborOffsets[n][1], j + NeighborOffsets[n][2])

nextState(h, src, i, j) ==
    LET neighbors == sumCells(h, src, i, j, Len(NeighborOffsets))
        state == getCell(h, src, i, j)
    IN
    IF state = GOL__CELL_STATE__OFF
    THEN IF neighbors = 3 THEN GOL__CELL_STATE__ON ELSE GOL__CELL_STATE__OFF
    ELSE IF neighbors < 2 \/ neighbors > 3
         THEN GOL__CELL_STATE__OFF
         ELSE GOL__CELL_STATE__ON

\* iterateCells, but a cell whose new state is Off is not written
RECURSIVE iterateCellsSkipOff(_, _, _, _)
iterateCellsSkipOff(h, src, trg, k) ==
    IF k >= src.gridSizeX * src.gridSizeY THEN h
    ELSE LET i == k \div src.gridSizeY
             j == k % src.gridSizeY
             n == nextState(h, src, i, j)
         IN iterateCellsSkipOff(
              IF n = GOL__CELL_STATE__OFF THEN h
              ELSE setCell(h, trg, i, j, n).heap,
              src, trg, k + 1)

RECURSIVE iterateCells(_, _, _, _)
iterateCells(h, src, trg, k) ==
    IF k >= src.gridSizeX * src.gridSizeY THEN h
    ELSE LET i == k \div src.gridSizeY
             j == k % src.gridSizeY
         IN iterateCells(setCell(h, trg, i, j, nextState(h, src, i, j)).heap,
                         src, trg, k + 1)

\* iterateGame, but currentGridPtr is left on the source grid
iterateGameNoSwitch(h, gm, gp) ==
    LET gridAPtr == Ptr(gp.blk, OffGridA)
        gridBPtr == Ptr(gp.blk, OffGridB)
        srcGridPtr == gm.currentGridPtr
        error == srcGridPtr # gridAPtr /\ srcGridPtr # gridBPtr
        trgGridPtr == IF srcGridPtr = gridAPtr THEN gridBPtr ELSE gridAPtr
    IN
    IF error THEN [heap |-> h, game |-> gm]
    ELSE [heap |-> iterateCells(h, Deref(gm, gp, srcGridPtr),
                                Deref(gm, gp, trgGridPtr), 0),
          game |-> gm]

iterateGame(h, gm, gp) ==
    LET gridAPtr == Ptr(gp.blk, OffGridA)
        gridBPtr == Ptr(gp.blk, OffGridB)
        srcGridPtr == gm.currentGridPtr
        error == srcGridPtr # gridAPtr /\ srcGridPtr # gridBPtr
        trgGridPtr == IF srcGridPtr = gridAPtr THEN gridBPtr ELSE gridAPtr
    IN
    IF error THEN [heap |-> h, game |-> gm]
    ELSE [heap |-> iterateCells(h, Deref(gm, gp, srcGridPtr),
                                Deref(gm, gp, trgGridPtr), 0),
          game |-> [gm EXCEPT !.currentGridPtr = trgGridPtr]]

(* ------------------------ Grid, Game - destroy ------------------------- *)
\* survive is the number of undefined operations the process gets through
\* before one of them ends it
killed(m, survive) == Cardinality(m.faults) > survive

destroyGrid(m, gm, gp, oldGridPtr, survive) ==
    LET m0 == IF m.heap[oldGridPtr.blk].live THEN m
              ELSE [m EXCEPT !.faults = @ \cup {"use_after_free"}]
        g == Deref(gm, gp, oldGridPtr)
        origin == g.origin
        arraySizeX == g.arraySizeX
    IN
    IF killed(m0, survive) THEN m0
    ELSE free(free(freeRows(m0, m0.heap[origin.blk].ptrs, 0, arraySizeX),
                   origin),
              oldGridPtr)

destroyGame(m, gm, oldGamePtr, survive) ==
    LET m1 == destroyGrid(m, gm, oldGamePtr, Ptr(oldGamePtr.blk, OffGridA), survive)
        m2 == IF killed(m1, survive) THEN m1
              ELSE destroyGrid(m1, gm, oldGamePtr, Ptr(oldGamePtr.blk, OffGridB), survive)
        m3 == IF killed(m2, survive) THEN m2 ELSE free(m2, oldGamePtr)
    IN m3

(* ------------------------------ state ---------------------------------- *)
NoCall == [op |-> "none", x |-> 0, y |-> 0, state |-> 0, ret |-> 0,
           outcome |-> "returned"]

Call(op, x, y, state, ret, outcome) ==
    [op |-> op, x |-> x, y |-> y, state |-> state, ret |-> ret,
     outcome |-> outcome]

\* what a division by zero in lldiv does to the process: the divide traps, or
\* it yields a value and selsectCell recurses until the stack is exhausted
UBOutcomes == {"SIGFPE", "stack_overflow"}

\* the grid *( gamePtr->currentGridPtr )
Current == Deref(game, gamePtr, game.currentGridPtr)

Cells(g) == (0 .. g.gridSizeX - 1) \X (0 .. g.gridSizeY - 1)

\* every in-bounds cell of a grid, as getCell reads it
Reading(h, g) == [c \in Cells(g) |-> getCell(h, g, c[1], c[2])]

\* the allocator at the start of a call
Allocator(failAt, zeroNull) ==
    [heap |-> heap, calls |-> 0, failAt |-> failAt, zeroNull |-> zeroNull,
     faults |-> faults]

Init ==
    /\ heap = <<>>
    /\ game = NoGame
    /\ gamePtr = Null
    /\ pc = "start"
    /\ last = NoCall
    /\ faults = {}
    /\ seed = <<>>
    /\ gen = 0
    /\ nIter = 0
    /\ nWrites = 0
    /\ randomized = FALSE

(* ------------------------------ actions -------------------------------- *)
CreateGame(gridSizeX, gridSizeY, outOfBoundsRule, failAt, zeroNull) ==
    /\ pc = "start"
    /\ \E r \in {createGame(Allocator(failAt, zeroNull),
                            gridSizeX, gridSizeY, outOfBoundsRule)} :
          /\ heap' = r.m.heap
          /\ faults' = r.m.faults
          /\ game' = r.game
          /\ gamePtr' = r.ret
          /\ pc' = IF r.error THEN "failed" ELSE "running"
          /\ seed' = IF r.error THEN <<>> ELSE Reading(r.m.heap, r.game.gridA)
    /\ last' = Call("create", gridSizeX, gridSizeY, outOfBoundsRule, 0, "returned")
    /\ UNCHANGED <<gen, nIter, nWrites, randomized>>

\* setCell( gamePtr->currentGridPtr, x, y, newState ); record says whether
\* the caller keeps the value returned
CallSetCell(x, y, newState, record) ==
    /\ pc = "running"
    /\ LET g == Current IN
       IF selsectCellDefined(g, x, y)
       THEN \E r \in {setCell(heap, g, x, y, newState)} :
            /\ heap' = r.heap
            /\ pc' = pc
            /\ faults' = faults
            /\ last' = IF record
                       THEN Call("set", x, y, newState, r.error, "returned")
                       ELSE NoCall
            /\ seed' = Reading(r.heap, g)
            /\ gen' = 0
       ELSE \E o \in UBOutcomes :
            /\ pc' = "crashed"
            /\ faults' = faults \cup {"division_by_zero"}
            /\ last' = Call("set", x, y, newState, 0, o)
            /\ UNCHANGED <<heap, seed, gen>>
    /\ nWrites' = nWrites + 1
    /\ UNCHANGED <<game, gamePtr, nIter, randomized>>

\* a seeding caller such as gliderGunDemo, which drops the error code
SeedCell(x, y, newState) ==
    /\ nWrites < MaxWrites
    /\ ~randomized
    /\ CallSetCell(x, y, newState, FALSE)

\* the call under observation is the last one of a run
Observed == last.op \in {"get", "set"}

SetCell(x, y, newState) ==
    /\ ~Observed
    /\ CallSetCell(x, y, newState, TRUE)

GetCell(x, y) ==
    /\ pc = "running"
    /\ ~Observed
    /\ LET g == Current IN
       IF selsectCellDefined(g, x, y)
       THEN /\ last' = Call("get", x, y, 0, getCell(heap, g, x, y), "returned")
            /\ pc' = pc
            /\ faults' = faults
       ELSE \E o \in UBOutcomes :
            /\ pc' = "crashed"
            /\ faults' = faults \cup {"division_by_zero"}
            /\ last' = Call("get", x, y, 0, 0, o)
    /\ UNCHANGED <<heap, game, gamePtr, seed, gen, nIter, nWrites, randomized>>

\* randomGameDemo: a new game is randomized once and from then on iterated
RandomizeGame(r) ==
    /\ pc = "running"
    /\ nWrites = 0 /\ nIter = 0 /\ ~randomized
    /\ heap' = randomizeGrid(heap, Current, r, 0)
    /\ seed' = Reading(heap', Current)
    /\ gen' = 0
    /\ randomized' = TRUE
    /\ last' = NoCall
    /\ UNCHANGED <<game, gamePtr, pc, faults, nIter, nWrites>>

IterateGame ==
    /\ pc = "running"
    /\ nIter < MaxSteps
    /\ \E r \in {iterateGame(heap, game, gamePtr)} :
       /\ heap' = r.heap
       /\ game' = r.game
    /\ gen' = gen + 1
    /\ nIter' = nIter + 1
    /\ last' = NoCall
    /\ UNCHANGED <<gamePtr, pc, faults, seed, nWrites, randomized>>

DestroyGame(survive) ==
    /\ pc = "running"
    /\ \E m \in {destroyGame(Allocator(0, FALSE), game, gamePtr, survive)} :
       /\ heap' = m.heap
       /\ faults' = m.faults
       /\ pc' = IF killed(m, survive) THEN "crashed" ELSE "destroyed"
    /\ last' = Call("destroy", 0, 0, 0, 0, "returned")
    /\ UNCHANGED <<game, gamePtr, seed, gen, nIter, nWrites, randomized>>

(* --------------------------- specifications ---------------------------- *)
\* the grid sizes created: storage of at most MaxCells chars a grid
Dims == {d \in (-1 .. MaxX) \X (-1 .. MaxY) : d[1] * d[2] <= MaxCells}
GoodDims == {d \in Dims : d[1] >= 0 /\ d[2] >= 0}

\* the allocation calls one createGame can make
MaxAllocs == 1 + 2 * (2 + MaxX)

Coord == -MaxCoord .. MaxCoord

CellStates == {GOL__CELL_STATE__OFF, GOL__CELL_STATE__ON}

CreateOk ==
    \E d \in GoodDims, rule \in Rules : CreateGame(d[1], d[2], rule, 0, FALSE)

\* the seeding callers write cells of the grid they created
Seeding ==
    \E c \in Cells(Current), s \in CellStates : SeedCell(c[1], c[2], s)

Randomizing ==
    \E r \in [1 .. Current.gridSizeX * Current.gridSizeY -> {0, 1}] :
        RandomizeGame(r)

\* a session that is seeded and stepped
Next ==
    \/ CreateOk
    \/ Seeding
    \/ Randomizing
    \/ IterateGame

Spec == Init /\ [][Next]_vars

Reading1 ==
    \E x \in Coord, y \in Coord : GetCell(x, y)

Writing1 ==
    \E x \in Coord, y \in Coord,
       s \in CellStates \cup {GOL__CELL_STATE__INVALID} : SetCell(x, y, s)

SeedingFirst == ~Observed /\ nWrites < MaxSeeds /\ Seeding

\* a session that is seeded, and then written or read once at any coordinate
NextAccess ==
    \/ CreateOk
    \/ SeedingFirst
    \/ Writing1
    \/ Reading1

SpecAccess == Init /\ [][NextAccess]_vars

CreateAny ==
    \E d \in Dims, rule \in Rules, failAt \in 0 .. MaxAllocs, zeroNull \in BOOLEAN :
        CreateGame(d[1], d[2], rule, failAt, zeroNull)

Destroying ==
    \E survive \in 0 .. 3 : DestroyGame(survive)

\* the life of a session's storage: creation with any allocation failing,
\* use, destruction
NextAlloc ==
    \/ CreateAny
    \/ Seeding
    \/ IterateGame
    \/ Destroying

SpecAlloc == Init /\ [][NextAlloc]_vars

(* ------------------- the B3/S23 reference rule -------------------------- *)
\* s maps every in-bounds <<x, y>> of an X by Y grid to On or Off
RefGet(s, X, Y, rule, x, y) ==
    IF x >= 0 /\ x < X /\ y >= 0 /\ y < Y THEN s[<<x, y>>]
    ELSE IF rule = GOL__OOBR__ALL_OFF THEN GOL__CELL_STATE__OFF
    ELSE IF rule = GOL__OOBR__ALL_ON THEN GOL__CELL_STATE__ON
    ELSE s[<<x % X, y % Y>>]

Around == {d \in {-1, 0, 1} \X {-1, 0, 1} : d # <<0, 0>>}

RefLiveNeighbours(s, X, Y, rule, c) ==
    Cardinality({d \in Around :
        RefGet(s, X, Y, rule, c[1] + d[1], c[2] + d[2]) = GOL__CELL_STATE__ON})

RefNext(s, X, Y, rule) ==
    [c \in DOMAIN s |->
        LET n == RefLiveNeighbours(s, X, Y, rule, c) IN
        IF s[c] = GOL__CELL_STATE__OFF
        THEN IF n = 3 THEN GOL__CELL_STATE__ON ELSE GOL__CELL_STATE__OFF
        ELSE IF n \in {2, 3} THEN GOL__CELL_STATE__ON ELSE GOL__CELL_STATE__OFF]

RECURSIVE RefIter(_, _, _, _, _)
RefIter(s, X, Y, rule, n) ==
    IF n = 0 THEN s ELSE RefIter(RefNext(s, X, Y, rule), X, Y, rule, n - 1)

Positive(g) == g.gridSizeX >= 1 /\ g.gridSizeY >= 1

(* ------------------------------- claims -------------------------------- *)
\* C1: after N calls of iterateGame on a seeded grid of positive size, the
\* current grid reads, cell for cell, as the N-th iterate of the B3/S23
\* reference rule applied to the seed, under each out-of-bounds rule.
C1_IterateRefinesRule ==
    (pc = "running" /\ Positive(Current))
        => Reading(heap, Current) =
             RefIter(seed, Current.gridSizeX, Current.gridSizeY,
                     Current.outOfBoundsRule, gen)

\* the second iteration has written over the grid that held the seed: a cell
\* that was On in the seed reads Off, and some cell reads On
C1_Witness ==
    /\ pc = "running" /\ gen = 2
    /\ \E c \in DOMAIN seed :
          /\ seed[c] = GOL__CELL_STATE__ON
          /\ getCell(heap, Current, c[1], c[2]) = GOL__CELL_STATE__OFF
    /\ \E c \in DOMAIN seed :
          getCell(heap, Current, c[1], c[2]) = GOL__CELL_STATE__ON

\* C2: a setCell of On or Off on an in-bounds cell succeeds, and getCell on
\* the same coordinates then returns the state written.
C2_ReadAfterWrite ==
    (/\ last.op = "set" /\ last.outcome = "returned"
     /\ InBounds(Current, last.x, last.y)
     /\ last.state \in CellStates)
        => /\ last.ret = 0
           /\ getCell(heap, Current, last.x, last.y) = last.state

\* Off has been written in bounds on a grid that other writes came before
C2_Witness ==
    /\ last.op = "set" /\ last.outcome = "returned"
    /\ InBounds(Current, last.x, last.y)
    /\ last.state = GOL__CELL_STATE__OFF
    /\ nWrites = MaxSeeds + 1
    /\ \E c \in Cells(Current) :
          getCell(heap, Current, c[1], c[2]) = GOL__CELL_STATE__ON

\* the state of the in-bounds cell a coordinate wraps to on a torus
Wrapped(g, x, y) == getCell(heap, g, x % g.gridSizeX, y % g.gridSizeY)

SetStep == last.op # "set" /\ last'.op = "set" /\ last'.outcome = "returned"

\* C4 as claimed: a setCell outside the grid returns an error code and
\* changes no cell, under every out-of-bounds rule.
C4_OutOfBoundsSetFails ==
    [][(SetStep /\ ~InBounds(Current, last'.x, last'.y))
          => (last'.ret # 0 /\ heap' = heap)]_vars

\* C4 as amended: a setCell outside the grid returns the error code 1 and
\* changes no cell under ALL_OFF and ALL_ON; under TORUS, on a grid of
\* positive size and for a new state On or Off, it returns 0 and writes the
\* cell (x mod gridSizeX, y mod gridSizeY).
C4_OutOfBoundsSetByRule ==
    [][(SetStep /\ ~InBounds(Current, last'.x, last'.y))
          => IF Current.outOfBoundsRule # GOL__OOBR__TORUS
             THEN last'.ret = 1 /\ heap' = heap
             ELSE (Positive(Current) /\ last'.state \in CellStates)
                     => /\ last'.ret = 0
                        /\ getCell(heap', Current,
                                   last'.x % Current.gridSizeX,
                                   last'.y % Current.gridSizeY) = last'.state]_vars

\* an out-of-bounds setCell has been made under each kind of rule
C4_Witness ==
    /\ last.op = "set" /\ last.outcome = "returned"
    /\ Positive(Current)
    /\ ~InBounds(Current, last.x, last.y)
    /\ Current.outOfBoundsRule = GOL__OOBR__TORUS
    /\ last.state = GOL__CELL_STATE__ON
    /\ last.ret = 0
    /\ Wrapped(Current, last.x, last.y) = GOL__CELL_STATE__ON

\* C5: on every grid createGame accepts (a size of zero included) getCell
\* returns, and what it returns is On or Off.
C5_ReadsNeverFail ==
    last.op = "get" => (last.outcome = "returned" /\ last.ret \in CellStates)

\* C6: a createGame that fails returns a NULL pointer.
C6_FailureReturnsNull ==
    pc = "failed" => gamePtr = Null

\* C7: when createGame fails, no block it allocated is still allocated.
C7_FailureLeaksNothing ==
    pc = "failed" => \A b \in DOMAIN heap : ~heap[b].live

\* C8: after destroyGame every block of the game has been freed, and no
\* free of a bad address, second free or read of a freed block has happened.
C8_DestroyFreesAllOnce ==
    last.op = "destroy" =>
        /\ pc = "destroyed"
        /\ faults = {}
        /\ \A b \in DOMAIN heap : ~heap[b].live

\* C9: while the game runs, currentGridPtr is &gridA or &gridB of the game
\* createGame returned, and it is &gridA exactly after an even number of
\* iterateGame calls.
C9_CurrentIsAOrB ==
    pc = "running" =>
        /\ gamePtr # Null
        /\ heap[gamePtr.blk].kind = "Game"
        /\ game.currentGridPtr \in
              {Ptr(gamePtr.blk, OffGridA), Ptr(gamePtr.blk, OffGridB)}
        /\ (game.currentGridPtr = Ptr(gamePtr.blk, OffGridA)) <=> (nIter % 2 = 0)

C9_Witness ==
    /\ pc = "running" /\ nIter = 2 /\ nWrites > 0
    /\ game.currentGridPtr = Ptr(gamePtr.blk, OffGridA)

\* the number of cells the documentation packs into one char (CHAR_BIT)
BitsPerWord == 8

PackedAs(g) ==
    /\ g.arraySizeX = g.gridSizeX
    /\ g.arraySizeY = (g.gridSizeY + BitsPerWord - 1) \div BitsPerWord
    /\ Len(heap[g.origin.blk].ptrs) = g.gridSizeX
    /\ \A c \in Cells(g) :
          LET row == heap[g.origin.blk].ptrs[c[1] + 1]
              t == selsectCell(heap, g, c[1], c[2])
          IN /\ Len(heap[row.blk].chars) =
                   (g.gridSizeY + BitsPerWord - 1) \div BitsPerWord
             /\ t.storageCharPtr = Ptr(row.blk, c[2] \div BitsPerWord)
             /\ t.bitIndex = c[2] % BitsPerWord

\* C10: a grid owns gridSizeX columns of ceil(gridSizeY / 8) chars, and the
\* in-bounds cell (x, y) is bit y mod 8 of char floor(y / 8) of column x.
C10_BitPacked ==
    pc = "running" => (PackedAs(game.gridA) /\ PackedAs(game.gridB))

(* --------------- writes observed after iterations (C11) ---------------- *)
\* the coordinates of the observed write: every cell of the current grid and
\* one step outside it on each side
FrameX == -1 .. Current.gridSizeX
FrameY == -1 .. Current.gridSizeY

IteratingFrame == ~Observed /\ IterateGame

WritingFrame ==
    \E x \in FrameX, y \in FrameY,
       s \in CellStates \cup {GOL__CELL_STATE__INVALID} : SetCell(x, y, s)

NextFrame == CreateOk \/ SeedingFirst \/ IteratingFrame \/ WritingFrame

SpecFrame == Init /\ [][NextFrame]_vars

\* the grid of the game that currentGridPtr does not point to
Other ==
    IF game.currentGridPtr = Ptr(gamePtr.blk, OffGridA)
    THEN game.gridB ELSE game.gridA

\* the cells of g, but for those in except, read the same before and after
SameReads(g, except) ==
    \A c \in Cells(g) \ except :
        getCell(heap', g, c[1], c[2]) = getCell(heap, g, c[1], c[2])

\* C11: a setCell on an in-bounds (x, y) of the current grid leaves the value
\* getCell reads unchanged for every other cell of that grid and for every
\* cell of the game's other grid, whatever the new state; a setCell that
\* returns an error code leaves it unchanged for every cell of both grids.
C11_SetCellFrame ==
    [][SetStep =>
          /\ InBounds(Current, last'.x, last'.y)
                => /\ SameReads(Current, {<<last'.x, last'.y>>})
                   /\ SameReads(Other, {})
          /\ last'.ret # 0
                => /\ SameReads(Current, {})
                   /\ SameReads(Other, {})]_vars

\* an in-bounds cell has been set to On after an iteration, next to a cell
\* that reads Off and one that reads On, while the other grid holds a cell
\* that reads On
C11_Witness ==
    /\ last.op = "set" /\ last.outcome = "returned" /\ last.ret = 0
    /\ nIter > 0
    /\ InBounds(Current, last.x, last.y)
    /\ last.state = GOL__CELL_STATE__ON
    /\ \E c, d \in Cells(Current) \ {<<last.x, last.y>>} :
          /\ getCell(heap, Current, c[1], c[2]) = GOL__CELL_STATE__OFF
          /\ getCell(heap, Current, d[1], d[2]) = GOL__CELL_STATE__ON
    /\ \E c \in Cells(Other) :
          getCell(heap, Other, c[1], c[2]) = GOL__CELL_STATE__ON

====
